---------------------------- MODULE Spec2Model ----------------------------
(***************************************************************************)
(* State-machine model of the spawn replicating proxy: the node inventory  *)
(* (node.go), the queue registry and liveness probe (queue.go), and the    *)
(* coordinator, workers and write dispatcher (server.go).                  *)
(*                                                                         *)
(* Timing.  A worker that is parked in one of its selects serves an `ask`  *)
(* or a `quit` at once, so the probe timer of getResponse is allowed to    *)
(* expire only while every worker of the probed queue is inside an HTTP    *)
(* call (checkNode or dispatchRequest), or has taken the ask at the very   *)
(* moment of the expiry, or while the queue has no worker.                 *)
(* The dispatcher's answer timer may expire whenever no answer is ready.   *)
(***************************************************************************)
EXTENDS Integers, Sequences, FiniteSets, TLC

\* ------------------------------------------------------------------ bounds
MaxWrites == 2
MaxAdmin == 3
FanOps == 3
LiveOps == 3
MaxWorkers == 2
MaxQueues == 2
ApiOps == 3
HttpOps == 3
CallOps == 2
MaxInv == 3
MaxReads == 2
DownOps == 3
RoundOps == 4
SeqOps == 4
WriteOps == 3
OrderOps == 3
LockOps == 2
ProbeOps == 4
FrameOps == 2
MaxStr == 2

\* ------------------------------------------------------- program constants
MaxSignals == 1000
MaxJobs == 100000
cmdQueueCapacity == 100

byPriority == TRUE

\* ------------------------------------------------------------------- types
\* a node identity stands for the rendered "host:port" string
Nodes == {1, 2}
Priorities == {1}
RIds == 1..MaxWrites
WIds == 1..MaxWorkers
QIds == 1..MaxQueues
RdIds == 1..MaxReads

NoNode == [id |-> 0, priority |-> 0, active |-> FALSE, maintenance |-> FALSE]

Node(n, p, a, m) == [id |-> n, priority |-> p, active |-> a, maintenance |-> m]

\* nodeJob values posted on NodeBundle.update
UpdateJob(rec) == [isDelete |-> FALSE, isUpdate |-> TRUE, done |-> FALSE, record |-> rec]
\* a delete job that carries the flag of an update
DeleteJobAsUpdate(n) == [isDelete |-> FALSE, isUpdate |-> TRUE, done |-> FALSE, record |-> Node(n, 0, FALSE, FALSE)]

DeleteJob(n) == [isDelete |-> TRUE, isUpdate |-> FALSE, done |-> FALSE, record |-> Node(n, 0, FALSE, FALSE)]
DoneJob == [isDelete |-> FALSE, isUpdate |-> FALSE, done |-> TRUE, record |-> NoNode]

responseSignal == 0
nodeJobSignal == 1

\* a queue object; enq and disp are the histories of what was put on
\* jobs and of what the workers handed to dispatchRequest, held counts
\* the jobs put on it while its node was in maintenance
NoQueue == [id |-> 0, jobs |-> <<>>, task |-> 0, ask |-> 0, response |-> 0,
            enq |-> <<>>, disp |-> <<>>, held |-> 0]
NewQueue(n) == [NoQueue EXCEPT !.id = n]

NoWorker == [q |-> 0, pc |-> "none", job |-> 0, probe |-> FALSE, quit |-> FALSE]
NoRequest == [pc |-> "new", nodes |-> <<>>, idx |-> 1, done |-> 0, answer |-> <<>>,
              result |-> "none", jobs |-> <<>>, tokens |-> 0, sent |-> 0, closed |-> 0, ok |-> 0]
Idle == [pc |-> "listen", ctx |-> "none", q |-> 0]

\* the bookkeeping of the admin calls.  pc, todo: the SetAll call in progress;
\* size, seqs: its batch, as the positions of its jobs in the stream of all
\* jobs ever posted on update; posted: the length of that stream; op, ret, arg:
\* the last call, what it returned and which nodes of its argument are faulty;
\* set: per node the record of a Set that returned true with no mutation of
\* the node posted since; del: the last Delete that returned true
NoCall == [pc |-> "idle", todo |-> <<>>, size |-> 0, seqs |-> {}, posted |-> 0,
           op |-> "none", ret |-> "none", arg |-> <<>>,
           set |-> [n \in Nodes |-> NoNode], del |-> [n |-> 0, seq |-> 0]]

\* a read request: its loop count, the node it has in hand, its snapshot
\* (without round-robin), the nodes it gave up on, its result and the node
\* that served it.  seq, stamp and good are bookkeeping: whether it began
\* with no read in flight and no mutation pending, the budgets left at
\* that time, and the nodes that were serving and
\* healthy at each of its steps so far
NoRead == [pc |-> "new", count |-> 0, node |-> NoNode, nodes |-> <<>>,
           tried |-> <<>>, result |-> "none", by |-> 0,
           seq |-> FALSE, stamp |-> <<0, 0>>, good |-> {}]

\* the caller of Shutdown, and the callers that have posted a
\* responseSignal and wait for its token
NoShutdown == [pc |-> "none", err |-> "none", waiting |-> 0]

\* no call of isAlphaNumeric yet
NoAlnum == [str |-> <<>>, called |-> FALSE, isAlphaNum |-> TRUE]

VARIABLES
    records,    \* NodeBundle.records: node identity -> Node, or NoNode
    update,     \* NodeBundle.update channel
    job,        \* Server.job channel
    co,         \* the coordinator: jobListener / updateRecords / remove
    queues,     \* queueBundle.records: node identity -> queue object, 0 if none
    qs,         \* the queue objects
    wk,         \* the worker tasks
    req,        \* the write requests and their shared answer/done channels
    health,     \* what a health probe of each node returns now
    admin,      \* admin operations the operator may still issue
    writes,     \* write requests the clients may still send
    hosts,      \* the nodes the operator configures
    api,        \* the admin call in progress and what the last call returned
    inv,        \* a node slice, in the order of insertion
    out,        \* what GetAll returned for it
    roundRobin, \* Server.roundRobin, as Run has set it
    ring,       \* NodeBundle.ring: its nodes from the element it points to
    rd,         \* the read requests
    response,   \* Server.response channel: the tokens in it
    quit,       \* Server.quit channel: the signals in it
    sd,         \* the caller of Shutdown
    alnum,      \* a call of isAlphaNumeric: its argument and its result
    hostKeys    \* the keys of NodeBundle.records: the hosts that have a port map

vars == <<records, update, job, co, queues, qs, wk, req, health, admin, writes, hosts, api, inv, out,
          roundRobin, ring, rd, response, quit, sd, alnum, hostKeys>>

\* the reads, the ring, the shutdown and the validation helper
ext == <<roundRobin, ring, rd, response, quit, sd, alnum, hostKeys>>

\* what the proxy itself never writes: the bookkeeping of the admin calls and
\* the slice of the sorting checks
aux == <<api, inv, out, ext>>

\* -------------------------------------------------------------- inventory
\* byPriority.Less
Less(x, y) ==
    IF x.priority > 0 /\ y.priority > 0 THEN x.priority < y.priority
    ELSE IF x.priority < 0 /\ y.priority < 0 THEN x.priority > y.priority
    ELSE x.priority >= 0 /\ y.priority <= 0

\* sort.Sort on a short slice is an insertion sort driven by Less
RECURSIVE insert(_, _)
insert(s, x) ==
    IF s = <<>> THEN <<x>>
    ELSE IF Less(x, s[Len(s)]) THEN Append(insert(SubSeq(s, 1, Len(s) - 1), x), s[Len(s)])
    ELSE Append(s, x)

RECURSIVE sortByPriority(_)
sortByPriority(s) ==
    IF s = <<>> THEN <<>>
    ELSE insert(sortByPriority(SubSeq(s, 1, Len(s) - 1)), s[Len(s)])

Present == {n \in Nodes : records[n] # NoNode}

\* the orders in which a range over the records map may visit the nodes
Orders(S) == {s \in [1..Cardinality(S) -> S] : \A i, j \in 1..Cardinality(S) : i # j => s[i] # s[j]}

\* NodeBundle.GetAll: every slice it may return
GetAll ==
    {IF byPriority THEN sortByPriority([i \in 1..Len(o) |-> records[o[i]]])
     ELSE [i \in 1..Len(o) |-> records[o[i]]] : o \in Orders(Present)}

\* a ring built with the pointer left one node ahead
InitRingAhead(nodes) == Tail(nodes) \o <<Head(nodes)>>

\* NodeBundle.InitRing with more than one node: ring.New, then one Value
\* and one Next per node, which brings the pointer back to the first node
InitRing(nodes) == nodes

\* the host of every node of Nodes
HostA == <<97>>

\* a delete that leaves the port map of the host in place when it is empty
KeepHost(recs, ks) == ks

\* updateRecords, delete: the port is taken out of the map of its host, and
\* the host is taken out of the inventory when its map is empty
DeleteHost(recs, ks) == IF {n \in Nodes : recs[n] # NoNode} = {} THEN ks \ {HostA} ELSE ks

\* the inventory write lock is held for the whole of updateRecords
mutexLocked == co.pc \notin {"listen", "stopped"}

\* the inventory read lock is held by a DeleteAll that is sending its jobs
mutexRLocked == api.pc \in {"send", "notify"}

\* ---------------------------------------------------------- queue objects
Referenced(q, reg, w, c) ==
    \/ \E n \in Nodes : reg[n] = q
    \/ \E i \in WIds : w[i].q = q
    \/ c.q = q

\* queue objects nothing refers to any more are collected
Collect(Q, reg, w, c) == [q \in QIds |-> IF Referenced(q, reg, w, c) THEN Q[q] ELSE NoQueue]

FreeQueues == {q \in QIds : qs[q] = NoQueue /\ ~Referenced(q, queues, wk, co)}
FreeWorkers == {w \in WIds : wk[w] = NoWorker}
Min(S) == CHOOSE x \in S : \A y \in S : x <= y

WorkersOf(q) == {w \in WIds : wk[w].q = q}

\* go server.worker(q)
Spawn(w, q) == [w EXCEPT ![Min({i \in WIds : w[i] = NoWorker})] = [NoWorker EXCEPT !.q = q, !.pc = "sel1"]]

\* ------------------------------------------------------------------- Init
\* NewServer and Run without configured nodes, up to the mode of Run
Built ==
    /\ records = [n \in Nodes |-> NoNode]
    /\ update = <<>>
    /\ job = <<>>
    /\ co = Idle
    /\ queues = [n \in Nodes |-> 0]
    /\ qs = [q \in QIds |-> NoQueue]
    /\ wk = [w \in WIds |-> NoWorker]
    /\ req = [r \in RIds |-> NoRequest]
    /\ health = [n \in Nodes |-> TRUE]
    /\ api = NoCall
    /\ inv = <<>>
    /\ out = <<>>
    /\ ring = <<>>
    /\ rd = [r \in RdIds |-> NoRead]
    /\ response = 0
    /\ quit = 0
    /\ sd = NoShutdown
    /\ alnum = NoAlnum
    /\ hostKeys = {}

\* Run(false): requests go to the nodes of a snapshot
Constructed == Built /\ roundRobin = FALSE

Init ==
    /\ Constructed
    /\ admin = MaxAdmin
    /\ writes = MaxWrites
    /\ hosts = {1}

\* two nodes and FanOps operations in all, for the fan-out of a write
InitFan ==
    /\ Constructed
    /\ \E k \in 0..FanOps : admin = k /\ writes = FanOps - k
    /\ hosts = Nodes

\* one node and LiveOps operations in all, for the progress of a queued write
InitLive ==
    /\ Constructed
    /\ \E k \in 0..LiveOps : admin = k /\ writes = LiveOps - k
    /\ hosts = {1}

\* ---------------------------------------------------------- environment
\* a backend goes down or comes up
Flip(n) ==
    /\ n \in hosts
    /\ health' = [health EXCEPT ![n] = ~health[n]]
    /\ UNCHANGED <<records, update, job, co, queues, qs, wk, req, admin, writes, hosts, aux>>

\* ------------------------------------------------------ admin operations
\* NodeBundle.Set of a valid node
Set(n, p, a, m) ==
    /\ admin > 0
    /\ n \in hosts
    /\ Len(update) + 2 <= MaxJobs
    /\ Len(job) < MaxSignals
    /\ update' = update \o <<UpdateJob(Node(n, p, a, m)), DoneJob>>
    /\ job' = Append(job, nodeJobSignal)
    /\ admin' = admin - 1
    /\ UNCHANGED <<records, co, queues, qs, wk, req, health, writes, hosts, aux>>

\* NodeBundle.Delete of a record that exists
Delete(n) ==
    /\ admin > 0
    /\ n \in hosts
    /\ ~mutexLocked
    /\ records[n] # NoNode
    /\ Len(update) + 2 <= MaxJobs
    /\ Len(job) < MaxSignals
    /\ update' = update \o <<DeleteJob(n), DoneJob>>
    /\ job' = Append(job, nodeJobSignal)
    /\ admin' = admin - 1
    /\ UNCHANGED <<records, co, queues, qs, wk, req, health, writes, hosts, aux>>

\* ----------------------------------------------------------- coordinator
\* a getResponse that does not sweep the response channel first
AskUnswept(Q, q) == [Q EXCEPT ![q].ask = Q[q].ask + 1]

\* getResponse up to its select: sweep response, post one ask
Ask(Q, q) == [Q EXCEPT ![q].response = 0, ![q].ask = Q[q].ask + 1]

\* the probe timer of getResponse may expire (see Timing above)
TimerMayFire(q) ==
    /\ qs[q].response = 0
    /\ \A w \in WorkersOf(q) : wk[w].pc \in {"check", "send", "answer"}

\* Server.jobListener / jobController: take a signal; a responseSignal is
\* answered with a token on response, a nodeJobSignal enters updateRecords,
\* which takes the inventory write lock
jobListener ==
    /\ co.pc = "listen"
    /\ job # <<>>
    /\ job' = Tail(job)
    /\ IF Head(job) = responseSignal
       THEN /\ response < MaxSignals
            /\ response' = response + 1
            /\ co' = co
       ELSE /\ co' = [Idle EXCEPT !.pc = "update"]
            /\ response' = response
    /\ UNCHANGED <<records, update, queues, qs, wk, req, health, admin, writes, hosts, api, inv, out,
                   roundRobin, ring, rd, quit, sd, alnum, hostKeys>>

\* Server.jobListener, second select, case quit: no signal is pending; the
\* listener returns and its deferred function posts the final token
jobListenerQuit ==
    /\ co.pc = "listen"
    /\ job = <<>>
    /\ quit > 0
    /\ response < MaxSignals
    /\ quit' = quit - 1
    /\ response' = response + 1
    /\ co' = [Idle EXCEPT !.pc = "stopped"]
    /\ UNCHANGED <<records, update, job, queues, qs, wk, req, health, admin, writes, hosts, api, inv, out,
                   roundRobin, ring, rd, sd, alnum, hostKeys>>

\* queueBundle.remove up to the probe; without a queue it returns at once
removeBegin(n) ==
    IF queues[n] = 0
    THEN UNCHANGED <<co, qs>>
    ELSE /\ qs[queues[n]].ask < cmdQueueCapacity
         /\ qs' = Ask(qs, queues[n])
         /\ co' = [pc |-> "probe", ctx |-> "remove", q |-> queues[n]]

\* NodeBundle.updateRecords: one iteration of its loop, up to the point
\* where it blocks in a probe or returns on the done marker
updateRecords ==
    /\ co.pc = "update"
    /\ ~mutexRLocked
    /\ update # <<>>
    /\ update' = Tail(update)
    /\ LET u == Head(update)
           n == u.record.id
       IN  IF u.done
           THEN \* the done marker: updateRecords returns, InitRing follows
                /\ co' = Idle
                /\ UNCHANGED <<records, queues, qs, wk, hostKeys>>
           ELSE IF u.isDelete
           THEN /\ records' = [records EXCEPT ![n] = NoNode]
                /\ hostKeys' = DeleteHost(records', hostKeys)
                /\ removeBegin(n)
                /\ UNCHANGED <<queues, wk>>
           ELSE /\ records' = [records EXCEPT ![n] = u.record]
                /\ hostKeys' = hostKeys \cup {HostA}
                /\ IF ~u.record.active
                   THEN /\ removeBegin(n)
                        /\ UNCHANGED <<queues, wk>>
                   ELSE IF queues[n] = 0
                   THEN \* queueBundle.check creates the queue
                        /\ FreeQueues # {}
                        /\ queues' = [queues EXCEPT ![n] = Min(FreeQueues)]
                        /\ qs' = [qs EXCEPT ![Min(FreeQueues)] = NewQueue(n)]
                        /\ IF u.record.maintenance
                           THEN wk' = wk
                           ELSE FreeWorkers # {} /\ wk' = Spawn(wk, Min(FreeQueues))
                        /\ co' = co
                   ELSE /\ qs[queues[n]].ask < cmdQueueCapacity
                        /\ qs' = Ask(qs, queues[n])
                        /\ co' = [pc |-> "probe", q |-> queues[n],
                                  ctx |-> IF u.record.maintenance THEN "maint" ELSE "start"]
                        /\ UNCHANGED <<queues, wk>>
    /\ IF Head(update).done /\ roundRobin /\ Cardinality(Present) > 1
       THEN \E nodes \in GetAll : ring' = InitRing(nodes)
       ELSE ring' = ring
    /\ UNCHANGED <<job, req, health, admin, writes, hosts, api, inv, out,
                   roundRobin, rd, response, quit, sd, alnum>>

\* getResponse: a token arrives on response, the worker is alive
getResponseAlive ==
    /\ co.pc = "probe"
    /\ qs[co.q].response > 0
    /\ qs' = [qs EXCEPT ![co.q].response = @ - 1]
    /\ co' = IF co.ctx = "start" THEN [Idle EXCEPT !.pc = "update"]
             ELSE [co EXCEPT !.pc = "quit"]
    /\ UNCHANGED <<records, update, job, queues, wk, req, health, admin, writes, hosts, aux>>

\* getResponse: the timer expires, the ask is swept, the worker is taken
\* for dead; remove then deletes the queue, updateRecords starts a worker
getResponseTimeout ==
    /\ co.pc = "probe"
    /\ TimerMayFire(co.q)
    /\ LET q == co.q
           c == [Idle EXCEPT !.pc = "update"]
           swept == [qs EXCEPT ![q].ask = IF @ > 0 THEN @ - 1 ELSE 0]
       IN  /\ co' = c
           /\ IF co.ctx = "remove"
              THEN /\ queues' = [queues EXCEPT ![qs[q].id] = 0]
                   /\ qs' = Collect(swept, queues', wk, c)
                   /\ wk' = wk
              ELSE IF co.ctx = "start"
              THEN /\ FreeWorkers # {}
                   /\ wk' = Spawn(wk, q)
                   /\ qs' = swept
                   /\ queues' = queues
              ELSE /\ qs' = swept
                   /\ UNCHANGED <<queues, wk>>
    /\ UNCHANGED <<records, update, job, req, health, admin, writes, hosts, aux>>

\* the receive of the worker's final token after a quit was taken
finalResponse ==
    /\ co.pc = "final"
    /\ qs[co.q].response > 0
    /\ LET q == co.q
           c == [Idle EXCEPT !.pc = "update"]
           taken == [qs EXCEPT ![q].response = @ - 1]
       IN  /\ co' = c
           /\ IF co.ctx = "remove"
              THEN /\ queues' = [queues EXCEPT ![qs[q].id] = 0]
                   /\ qs' = Collect(taken, queues', wk, c)
              ELSE /\ qs' = taken
                   /\ queues' = queues
    /\ UNCHANGED <<records, update, job, wk, req, health, admin, writes, hosts, aux>>

\* ---------------------------------------------------------------- worker
\* Server.checkNode: the node answers the health probe
checkNode(n) == health[n]

\* dispatchRequest: the transport reaches the node
dispatchRequest(n) == health[n]

\* the unbuffered quit channel: a controller is blocked sending on q.quit
QuitOffered(q) == co.pc = "quit" /\ co.q = q

\* a worker that enters doUpdate on a task token it leaves in the channel
worker1Peek(w) ==
    /\ wk[w].pc = "sel1"
    /\ IF qs[wk[w].q].task > 0
       THEN /\ wk' = [wk EXCEPT ![w].pc = "check"]
            /\ qs' = qs
       ELSE /\ wk' = [wk EXCEPT ![w].pc = "sel2"]
            /\ qs' = qs
    /\ UNCHANGED <<records, update, job, co, queues, req, health, admin, writes, hosts, aux>>

\* Server.worker, first select: a pending task is taken before any control
\* event; taking a task enters doUpdate and calls checkNode
worker1(w) ==
    /\ wk[w].pc = "sel1"
    /\ IF qs[wk[w].q].task > 0
       THEN /\ qs' = [qs EXCEPT ![wk[w].q].task = @ - 1]
            /\ wk' = [wk EXCEPT ![w].pc = "check"]
       ELSE /\ wk' = [wk EXCEPT ![w].pc = "sel2"]
            /\ qs' = qs
    /\ UNCHANGED <<records, update, job, co, queues, req, health, admin, writes, hosts, aux>>

\* Server.worker, second select, case task
workerTask(w) ==
    /\ wk[w].pc = "sel2"
    /\ qs[wk[w].q].task > 0
    /\ qs' = [qs EXCEPT ![wk[w].q].task = @ - 1]
    /\ wk' = [wk EXCEPT ![w].pc = "check"]
    /\ UNCHANGED <<records, update, job, co, queues, req, health, admin, writes, hosts, aux>>

\* Server.worker, second select, case quit: return, and the deferred
\* function posts the final token on response
workerQuit(w) ==
    /\ wk[w].pc = "sel2"
    /\ QuitOffered(wk[w].q)
    /\ qs[wk[w].q].response < cmdQueueCapacity
    /\ qs' = [qs EXCEPT ![wk[w].q].response = @ + 1]
    /\ wk' = [wk EXCEPT ![w] = NoWorker]
    /\ co' = [co EXCEPT !.pc = "final"]
    /\ UNCHANGED <<records, update, job, queues, req, health, admin, writes, hosts, aux>>

\* Server.worker, second select, case ask
workerAsk(w) ==
    /\ wk[w].pc = "sel2"
    /\ qs[wk[w].q].ask > 0
    /\ qs[wk[w].q].response < cmdQueueCapacity
    /\ qs' = [qs EXCEPT ![wk[w].q].ask = @ - 1, ![wk[w].q].response = @ + 1]
    /\ wk' = [wk EXCEPT ![w].pc = "sel1"]
    /\ UNCHANGED <<records, update, job, co, queues, req, health, admin, writes, hosts, aux>>

\* doUpdate with the health gate left out: the job is taken whatever the
\* probe returned
doUpdateUngated(w) ==
    /\ wk[w].pc = "check"
    /\ qs[wk[w].q].jobs # <<>>
    /\ wk' = [wk EXCEPT ![w].pc = "send", ![w].job = Head(qs[wk[w].q].jobs),
                        ![w].probe = checkNode(qs[wk[w].q].id)]
    /\ qs' = [qs EXCEPT ![wk[w].q].jobs = Tail(@)]
    /\ UNCHANGED <<records, update, job, co, queues, req, health, admin, writes, hosts, aux>>

\* Server.doUpdate: checkNode returns.  On success the loop is left and the
\* job is taken off q.jobs and handed to dispatchRequest; on failure the
\* worker parks in the retry select
doUpdateCheck(w) ==
    /\ wk[w].pc = "check"
    /\ LET q == wk[w].q
       IN  IF checkNode(qs[q].id)
           THEN /\ qs[q].jobs # <<>>
                /\ wk' = [wk EXCEPT ![w].pc = "send", ![w].job = Head(qs[q].jobs), ![w].probe = TRUE]
                /\ qs' = [qs EXCEPT ![q].jobs = Tail(@)]
           ELSE /\ wk' = [wk EXCEPT ![w].pc = "wait", ![w].probe = FALSE]
                /\ qs' = qs
    /\ UNCHANGED <<records, update, job, co, queues, req, health, admin, writes, hosts, aux>>

\* doUpdate that gives up on the retry timer instead of probing again
doUpdateGiveUp(w) ==
    /\ wk[w].pc = "wait"
    /\ wk' = [wk EXCEPT ![w].pc = "sel1"]
    /\ UNCHANGED <<records, update, job, co, queues, qs, req, health, admin, writes, hosts, aux>>

\* Server.doUpdate, retry select, case timeout: probe again
doUpdateRetry(w) ==
    /\ wk[w].pc = "wait"
    /\ wk' = [wk EXCEPT ![w].pc = "check"]
    /\ UNCHANGED <<records, update, job, co, queues, qs, req, health, admin, writes, hosts, aux>>

\* Server.doUpdate, retry select, case quit: the task token is pushed back
\* and doUpdate returns to the loop of Server.worker, which continues
doUpdateQuit(w) ==
    /\ wk[w].pc = "wait"
    /\ QuitOffered(wk[w].q)
    /\ qs[wk[w].q].task < MaxJobs
    /\ qs' = [qs EXCEPT ![wk[w].q].task = @ + 1]
    /\ wk' = [wk EXCEPT ![w].pc = "sel1", ![w].quit = TRUE]
    /\ co' = [co EXCEPT !.pc = "final"]
    /\ UNCHANGED <<records, update, job, queues, req, health, admin, writes, hosts, aux>>

\* Server.doUpdate, retry select, case ask: answer, then probe again
doUpdateAsk(w) ==
    /\ wk[w].pc = "wait"
    /\ qs[wk[w].q].ask > 0
    /\ qs[wk[w].q].response < cmdQueueCapacity
    /\ qs' = [qs EXCEPT ![wk[w].q].ask = @ - 1, ![wk[w].q].response = @ + 1]
    /\ wk' = [wk EXCEPT ![w].pc = "check"]
    /\ UNCHANGED <<records, update, job, co, queues, req, health, admin, writes, hosts, aux>>

\* the test of the done latch, len(job.done) == 0
latchFree(r) == req[r].done = 0

\* a dispatch that puts the job back on the queue, with a task token, when
\* the transport fails
doUpdateDispatchAgain(w) ==
    /\ wk[w].pc = "send"
    /\ LET q == wk[w].q
           r == wk[w].job
       IN  IF ~dispatchRequest(qs[q].id)
           THEN /\ qs' = [qs EXCEPT ![q].disp = Append(@, r), ![q].jobs = <<r>> \o @,
                                    ![q].task = @ + 1]
                /\ wk' = [wk EXCEPT ![w].pc = "sel1", ![w].job = 0]
                /\ req' = req
           ELSE /\ qs' = [qs EXCEPT ![q].disp = Append(@, r)]
                /\ IF latchFree(r)
                   THEN /\ wk' = [wk EXCEPT ![w].pc = "latch"]
                        /\ req' = [req EXCEPT ![r].ok = @ + 1]
                   ELSE /\ wk' = [wk EXCEPT ![w].pc = "sel1", ![w].job = 0]
                        /\ req' = [req EXCEPT ![r].ok = @ + 1, ![r].closed = @ + 1]
    /\ UNCHANGED <<records, update, job, co, queues, health, admin, writes, hosts, aux>>

\* a dispatch whose error is not looked at: the latch is tested and the
\* response published whatever dispatchRequest returned
doUpdateDispatchAny(w) ==
    /\ wk[w].pc = "send"
    /\ LET q == wk[w].q
           r == wk[w].job
           ok == IF dispatchRequest(qs[q].id) THEN 1 ELSE 0
       IN  /\ qs' = [qs EXCEPT ![q].disp = Append(@, r)]
           /\ IF latchFree(r)
              THEN /\ wk' = [wk EXCEPT ![w].pc = "latch"]
                   /\ req' = [req EXCEPT ![r].ok = @ + ok]
              ELSE /\ wk' = [wk EXCEPT ![w].pc = "sel1", ![w].job = 0]
                   /\ req' = [req EXCEPT ![r].ok = @ + ok, ![r].closed = @ + 1]
    /\ UNCHANGED <<records, update, job, co, queues, health, admin, writes, hosts, aux>>

\* Server.doUpdate: dispatchRequest returns.  An error drops the job; a
\* response either goes for the latch or has its body closed
doUpdateDispatch(w) ==
    /\ wk[w].pc = "send"
    /\ LET q == wk[w].q
           r == wk[w].job
       IN  /\ qs' = [qs EXCEPT ![q].disp = Append(@, r)]
           /\ IF ~dispatchRequest(qs[q].id)
              THEN /\ wk' = [wk EXCEPT ![w].pc = "sel1", ![w].job = 0]
                   /\ req' = req
              ELSE IF latchFree(r)
              THEN /\ wk' = [wk EXCEPT ![w].pc = "latch"]
                   /\ req' = [req EXCEPT ![r].ok = @ + 1]
              ELSE /\ wk' = [wk EXCEPT ![w].pc = "sel1", ![w].job = 0]
                   /\ req' = [req EXCEPT ![r].ok = @ + 1, ![r].closed = @ + 1]
    /\ UNCHANGED <<records, update, job, co, queues, health, admin, writes, hosts, aux>>

\* Server.doUpdate: the sends on job.done and job.answer that follow a
\* latch test that found it free
doUpdateAnswer(w) ==
    /\ wk[w].pc = "latch"
    /\ LET r == wk[w].job
       IN  /\ req[r].done < Len(req[r].nodes)
           /\ Len(req[r].answer) < Len(req[r].nodes)
           /\ req' = [req EXCEPT ![r].done = @ + 1,
                                 ![r].answer = Append(@, qs[wk[w].q].id),
                                 ![r].sent = @ + 1]
    /\ wk' = [wk EXCEPT ![w].pc = "sel1", ![w].job = 0]
    /\ UNCHANGED <<records, update, job, co, queues, qs, health, admin, writes, hosts, aux>>

\* ------------------------------------------------------------------ reads
\* node n is in the inventory, active, not in maintenance, and healthy
Eligible(n) == records[n] # NoNode /\ records[n].active /\ ~records[n].maintenance /\ health[n]

\* no mutation is pending or in progress
Quiet == co.pc = "listen" /\ job = <<>> /\ update = <<>>

\* one more step of read r: the nodes that are still serving and healthy
Step(r, c) == [c EXCEPT !.good = @ \cap {n \in Nodes : Eligible(n)}]

\* the next iteration of the loop of read r
Again(c) == [c EXCEPT !.count = @ + 1, !.tried = Append(@, c.node.id),
                      !.pc = IF roundRobin THEN "loop" ELSE "scan"]

\* Server.processReceive is entered; without round-robin it takes its
\* snapshot with GetAll and sorts it once more
processReceive(r) ==
    /\ rd[r].pc = "new"
    /\ \A i \in 1..(r - 1) : rd[i].pc # "new"
    /\ writes > 0
    /\ writes' = writes - 1
    /\ roundRobin \/ ~mutexLocked
    /\ \E s \in IF roundRobin THEN {<<>>} ELSE GetAll :
         rd' = [rd EXCEPT ![r] =
                   [@ EXCEPT !.pc = IF roundRobin THEN "loop" ELSE "scan",
                             !.nodes = IF byPriority THEN sortByPriority(s) ELSE s,
                             !.seq = Quiet /\ \A i \in RdIds : rd[i].pc \in {"new", "ret"},
                             !.stamp = <<admin, writes'>>,
                             !.good = {n \in Nodes : Eligible(n)}]]
    /\ UNCHANGED <<records, update, job, co, queues, qs, wk, req, health, admin, hosts, api, inv, out,
                   roundRobin, ring, response, quit, sd, alnum, hostKeys>>

\* round-robin: the loop test on ring.Len(), then CurrentFromRing under the
\* read lock
readCurrent(r) ==
    /\ rd[r].pc = "loop"
    /\ IF rd[r].count < Len(ring)
       THEN /\ ~mutexLocked
            /\ rd' = [rd EXCEPT ![r] = [Step(r, @) EXCEPT !.pc = "twist", !.node = Head(ring)]]
       ELSE rd' = [rd EXCEPT ![r] = [Step(r, @) EXCEPT !.pc = "ret", !.result = "error"]]
    /\ UNCHANGED <<records, update, job, co, queues, qs, wk, req, health, admin, writes, hosts, api, inv, out,
                   roundRobin, ring, response, quit, sd, alnum, hostKeys>>

\* round-robin: TwistRing under the write lock; a node that is inactive or
\* in maintenance ends the iteration
readTwist(r) ==
    /\ rd[r].pc = "twist"
    /\ ~mutexLocked
    /\ ring # <<>>
    /\ ring' = Tail(ring) \o <<Head(ring)>>
    /\ rd' = [rd EXCEPT ![r] = IF rd[r].node.active /\ ~rd[r].node.maintenance
                               THEN [Step(r, @) EXCEPT !.pc = "check"]
                               ELSE Again(Step(r, @))]
    /\ UNCHANGED <<records, update, job, co, queues, qs, wk, req, health, admin, writes, hosts, api, inv, out,
                   roundRobin, response, quit, sd, alnum, hostKeys>>

\* no round-robin: one iteration of the range over the snapshot
readScan(r) ==
    /\ rd[r].pc = "scan"
    /\ IF rd[r].count < Len(rd[r].nodes)
       THEN LET node == rd[r].nodes[rd[r].count + 1]
            IN  rd' = [rd EXCEPT ![r] = IF node.active /\ ~node.maintenance
                                        THEN [Step(r, @) EXCEPT !.pc = "check", !.node = node]
                                        ELSE Again([Step(r, @) EXCEPT !.node = node])]
       ELSE rd' = [rd EXCEPT ![r] = [Step(r, @) EXCEPT !.pc = "ret", !.result = "error"]]
    /\ UNCHANGED <<records, update, job, co, queues, qs, wk, req, health, admin, writes, hosts, api, inv, out,
                   roundRobin, ring, response, quit, sd, alnum, hostKeys>>

\* checkNode of the node in hand returns
readCheck(r) ==
    /\ rd[r].pc = "check"
    /\ rd' = [rd EXCEPT ![r] = IF checkNode(rd[r].node.id)
                               THEN [Step(r, @) EXCEPT !.pc = "send"]
                               ELSE Again(Step(r, @))]
    /\ UNCHANGED <<records, update, job, co, queues, qs, wk, req, health, admin, writes, hosts, api, inv, out,
                   roundRobin, ring, response, quit, sd, alnum, hostKeys>>

\* transport.RoundTrip to the node in hand returns
readSend(r) ==
    /\ rd[r].pc = "send"
    /\ rd' = [rd EXCEPT ![r] = IF dispatchRequest(rd[r].node.id)
                               THEN [Step(r, @) EXCEPT !.pc = "ret", !.result = "response",
                                                       !.by = rd[r].node.id]
                               ELSE Again(Step(r, @))]
    /\ UNCHANGED <<records, update, job, co, queues, qs, wk, req, health, admin, writes, hosts, api, inv, out,
                   roundRobin, ring, response, quit, sd, alnum, hostKeys>>

\* ------------------------------------------------------- write dispatcher
\* Server.processUpdate up to the fan-out loop: snapshot the inventory
\* Server.processUpdate of a request that DumpRequest can dump, up to the
\* snapshot
processUpdate(r) ==
    /\ req[r].pc = "new"
    /\ \A i \in 1..(r - 1) : req[i].pc # "new"
    /\ writes > 0
    /\ writes' = writes - 1
    /\ ~mutexLocked
    /\ \E s \in GetAll :
         req' = [req EXCEPT ![r] = IF Len(s) > 0
                                   THEN [@ EXCEPT !.pc = "fan", !.nodes = s]
                                   ELSE [@ EXCEPT !.pc = "ret", !.result = "undefined"]]
    /\ UNCHANGED <<records, update, job, co, queues, qs, wk, health, admin, hosts, aux>>

\* a fan-out that skips the nodes in maintenance
TargetServing(node) == node.active /\ ~node.maintenance

\* the nodes of a snapshot that get a job
Target(node) == node.active

\* queueBundle.mutex is held by remove for the whole handshake
registryLocked == co.ctx = "remove"

\* Server.processUpdate, one iteration of the fan-out loop: for an active
\* node, check (or create) its queue and put one job and one task on it
fanOut(r) ==
    /\ req[r].pc = "fan"
    /\ LET node == req[r].nodes[req[r].idx]
           n == node.id
           next == [req[r] EXCEPT !.idx = @ + 1,
                                  !.pc = IF req[r].idx = Len(req[r].nodes) THEN "await" ELSE "fan"]
       IN  IF Target(node)
           THEN /\ ~registryLocked
                /\ queues[n] = 0 => FreeQueues # {}
                /\ LET q == IF queues[n] = 0 THEN Min(FreeQueues) ELSE queues[n]
                       Q == IF queues[n] = 0 THEN [qs EXCEPT ![q] = NewQueue(n)] ELSE qs
                   IN  /\ Len(Q[q].jobs) < MaxJobs
                       /\ queues' = [queues EXCEPT ![n] = q]
                       /\ qs' = [Q EXCEPT ![q].jobs = Append(@, r), ![q].enq = Append(@, r),
                                          ![q].task = @ + 1,
                                          ![q].held = IF records[n].maintenance THEN @ + 1 ELSE @]
                /\ req' = [req EXCEPT ![r] = [next EXCEPT !.jobs = Append(@, n), !.tokens = @ + 1]]
           ELSE /\ req' = [req EXCEPT ![r] = next]
                /\ UNCHANGED <<queues, qs>>
    /\ UNCHANGED <<records, update, job, co, wk, health, admin, writes, hosts, aux>>

\* Server.processUpdate, final select, case answer
answered(r) ==
    /\ req[r].pc = "await"
    /\ req[r].answer # <<>>
    /\ req' = [req EXCEPT ![r].pc = "ret", ![r].result = "response", ![r].answer = Tail(@)]
    /\ UNCHANGED <<records, update, job, co, queues, qs, wk, health, admin, writes, hosts, aux>>

\* Server.processUpdate, final select, case timeout
timedOut(r) ==
    /\ req[r].pc = "await"
    /\ req[r].answer = <<>>
    /\ req' = [req EXCEPT ![r].pc = "ret", ![r].result = "timeout"]
    /\ UNCHANGED <<records, update, job, co, queues, qs, wk, health, admin, writes, hosts, aux>>

\* -------------------------------------------------------------- admin API
\* a host name is a string of character codes.  The nodes of Nodes live on
\* host "a" and node n listens on port n, so n renders as "a:n"
SetHosts == {<<>>, <<97>>, <<97, 33>>}
GetHosts == {<<97>>, <<98>>}
Ports == {0} \cup Nodes

\* a test that takes ':' for a digit
isAlphaNumericColon(str) ==
    \A i \in 1..Len(str) :
        LET b == str[i]
        IN  \/ (48 <= b /\ b <= 58)
            \/ (97 <= b /\ b <= 122)
            \/ (65 <= b /\ b <= 90)
            \/ b = 95
            \/ b = 45
            \/ b = 46

\* isAlphaNumeric: digits, letters, '_', '-' and '.'
isAlphaNumeric(str) ==
    \A i \in 1..Len(str) :
        LET b == str[i]
        IN  \/ (48 <= b /\ b <= 57)
            \/ (97 <= b /\ b <= 122)
            \/ (65 <= b /\ b <= 90)
            \/ b = 95
            \/ b = 45
            \/ b = 46

\* a validation that forgets the port
ValidHost(host, port) == ~(host = <<>> \/ ~isAlphaNumeric(host))

\* the test of Set and SetAll on one node
Valid(host, port) == ~(host = <<>> \/ ~isAlphaNumeric(host) \/ port = 0)

\* the node that host:port names, 0 if it names none of Nodes
NodeOf(host, port) == IF host = HostA /\ port \in Nodes THEN port ELSE 0

\* a lookup that finds every node of Nodes
LookupAny(host, port) == NodeOf(host, port) # 0

\* bundle.records[host][port]
Lookup(host, port) == NodeOf(host, port) # 0 /\ records[NodeOf(host, port)] # NoNode

\* NodeBundle.Get
Get(host, port) ==
    IF Lookup(host, port) THEN [node |-> records[NodeOf(host, port)], ok |-> TRUE]
    ELSE [node |-> NoNode, ok |-> FALSE]

\* bundle.records[host]: the nodes of a host
ByHost(host) == {n \in Present : host = HostA}

\* the argument of Set and the elements of the argument of SetAll
Inputs == [host : SetHosts, port : Ports, active : BOOLEAN, maintenance : BOOLEAN]
\* the batches of at most k nodes: each node with one fault at most
BatchInputs == {x \in Inputs : x.active /\ ~x.maintenance /\ (x.host = HostA \/ x.port = 1)}
Batches(k) == UNION {[1..j -> BatchInputs] : j \in 1..k}

\* the characters a host name may hold: 0-9, A-Z, a-z, '-', '.', '_'
HostChars == (48..57) \cup (65..90) \cup (97..122) \cup {45, 46, 95}
\* an argument with an empty host, a character outside HostChars or port 0
Faulty(x) == x.host = <<>> \/ x.port = 0 \/ \E i \in 1..Len(x.host) : x.host[i] \notin HostChars

Record(x) == Node(NodeOf(x.host, x.port), 1, x.active, x.maintenance)

\* one more call, of operation op, has returned ret
Returned(c, op, ret, arg) == [c EXCEPT !.op = op, !.ret = ret, !.arg = arg]

\* a mutation of the nodes of S has been posted
Touched(c, S) == [c EXCEPT !.set = [n \in Nodes |-> IF n \in S THEN NoNode ELSE @[n]]]

\* NodeBundle.Set
SetNode(x) ==
    /\ admin > 0
    /\ admin' = admin - 1
    /\ IF ~Valid(x.host, x.port)
       THEN /\ api' = Returned(api, "Set", "false", <<Faulty(x)>>)
            /\ UNCHANGED <<update, job>>
       ELSE /\ Len(update) + 2 <= MaxJobs
            /\ Len(job) < MaxSignals
            /\ update' = update \o <<UpdateJob(Record(x)), DoneJob>>
            /\ job' = Append(job, nodeJobSignal)
            /\ api' = [Returned(api, "Set", "true", <<Faulty(x)>>) EXCEPT
                           !.posted = @ + 2, !.set[Record(x).id] = Record(x)]
    /\ UNCHANGED <<records, co, queues, qs, wk, req, health, writes, hosts, inv, out, ext>>

\* NodeBundle.SetAll: the validation loop
SetAllBegin(xs) ==
    /\ api.pc = "idle"
    /\ admin >= Len(xs)
    /\ admin' = admin - Len(xs)
    /\ LET arg == [i \in 1..Len(xs) |-> Faulty(xs[i])]
       IN  IF \E i \in 1..Len(xs) : ~Valid(xs[i].host, xs[i].port)
           THEN api' = Returned(api, "SetAll", "false", arg)
           ELSE api' = [Returned(api, "SetAll", "none", arg) EXCEPT
                            !.pc = "post", !.todo = [i \in 1..Len(xs) |-> Record(xs[i])],
                            !.size = Len(xs), !.seqs = {}]
    /\ UNCHANGED <<records, update, job, co, queues, qs, wk, req, health, writes, hosts, inv, out, ext>>

\* NodeBundle.SetAll: one send of the posting loop
SetAllPost ==
    /\ api.pc = "post"
    /\ Len(update) < MaxJobs
    /\ update' = Append(update, UpdateJob(Head(api.todo)))
    /\ api' = [Touched(api, {Head(api.todo).id}) EXCEPT
                   !.todo = Tail(@), !.posted = @ + 1, !.seqs = @ \cup {api.posted + 1},
                   !.pc = IF Len(api.todo) = 1 THEN "done" ELSE "post"]
    /\ UNCHANGED <<records, job, co, queues, qs, wk, req, health, admin, writes, hosts, inv, out, ext>>

\* a SetAll that leaves out the done marker
SetAllNoMarker ==
    /\ api.pc = "done"
    /\ api' = [api EXCEPT !.pc = "signal"]
    /\ UNCHANGED <<records, update, job, co, queues, qs, wk, req, health, admin, writes, hosts, inv, out, ext>>

\* NodeBundle.SetAll: the send of the done marker
SetAllDone ==
    /\ api.pc = "done"
    /\ Len(update) < MaxJobs
    /\ update' = Append(update, DoneJob)
    /\ api' = [api EXCEPT !.pc = "signal", !.posted = @ + 1]
    /\ UNCHANGED <<records, job, co, queues, qs, wk, req, health, admin, writes, hosts, inv, out, ext>>

\* NodeBundle.SetAll: the send of the signal, and the return
SetAllSignal ==
    /\ api.pc = "signal"
    /\ Len(job) < MaxSignals
    /\ job' = Append(job, nodeJobSignal)
    /\ api' = [Returned(api, "SetAll", "true", [i \in 1..api.size |-> FALSE]) EXCEPT !.pc = "idle"]
    /\ UNCHANGED <<records, update, co, queues, qs, wk, req, health, admin, writes, hosts, inv, out, ext>>

\* NodeBundle.Delete
DeleteRecord(host, port) ==
    /\ admin > 0
    /\ admin' = admin - 1
    /\ ~mutexLocked
    /\ IF ~Lookup(host, port)
       THEN /\ api' = Returned(api, "Delete", "false", <<>>)
            /\ UNCHANGED <<update, job>>
       ELSE /\ Len(update) + 2 <= MaxJobs
            /\ Len(job) < MaxSignals
            /\ update' = update \o <<DeleteJob(NodeOf(host, port)), DoneJob>>
            /\ job' = Append(job, nodeJobSignal)
            /\ api' = [Touched(Returned(api, "Delete", "true", <<>>), {NodeOf(host, port)}) EXCEPT
                           !.posted = @ + 2,
                           !.del = [n |-> NodeOf(host, port), seq |-> api.posted + 1]]
    /\ UNCHANGED <<records, co, queues, qs, wk, req, health, writes, hosts, inv, out, ext>>

\* the delete jobs of a range over a map of nodes, then the done marker
DeleteJobs(o) == [i \in 1..Len(o) |-> DeleteJob(o[i])] \o <<DoneJob>>

\* NodeBundle.DeleteAllByHost, under the read lock
DeleteAllByHost(host) ==
    /\ admin > 0
    /\ admin' = admin - 1
    /\ ~mutexLocked
    /\ IF ByHost(host) = {}
       THEN /\ api' = Returned(api, "DeleteAllByHost", "false", <<>>)
            /\ UNCHANGED <<update, job>>
       ELSE /\ Len(update) + Cardinality(ByHost(host)) + 1 <= MaxJobs
            /\ Len(job) < MaxSignals
            /\ \E o \in Orders(ByHost(host)) : update' = update \o DeleteJobs(o)
            /\ job' = Append(job, nodeJobSignal)
            /\ api' = [Touched(Returned(api, "DeleteAllByHost", "true", <<>>), ByHost(host)) EXCEPT
                           !.posted = @ + Cardinality(ByHost(host)) + 1]
    /\ UNCHANGED <<records, co, queues, qs, wk, req, health, writes, hosts, inv, out, ext>>

\* NodeBundle.DeleteAll, under the read lock
DeleteAll ==
    /\ admin > 0
    /\ admin' = admin - 1
    /\ ~mutexLocked
    /\ Len(update) + Cardinality(Present) + 1 <= MaxJobs
    /\ Len(job) < MaxSignals
    /\ \E o \in Orders(Present) : update' = update \o DeleteJobs(o)
    /\ job' = Append(job, nodeJobSignal)
    /\ api' = [Touched(Returned(api, "DeleteAll", "none", <<>>), Present) EXCEPT
                   !.posted = @ + Cardinality(Present) + 1]
    /\ UNCHANGED <<records, co, queues, qs, wk, req, health, writes, hosts, inv, out, ext>>

\* the body of PUT /nodes/:host/:port: the fields the JSON text carries;
\* json.Unmarshal leaves the other fields of the record as they are
Bodies ==
    {b \in [host : SetHosts, port : Ports, keepHost : BOOLEAN, keepPort : BOOLEAN, active : BOOLEAN] :
        (b.keepHost => b.host = <<>>) /\ (b.keepPort => b.port = 0)}

\* NodeBundle.putRecord, under the read lock once the path is decoded
putRecord(host, port, body) ==
    /\ admin > 0
    /\ admin' = admin - 1
    /\ IF ~Valid(host, port)
       THEN \* decodeString or decodeNumber has answered 400
            /\ api' = Returned(api, "putRecord", "400", <<>>)
            /\ UNCHANGED <<update, job>>
       ELSE /\ ~mutexLocked
            /\ LET n == NodeOf(host, port)
                   exists == Lookup(host, port)
                   h == IF ~body.keepHost THEN body.host ELSE IF exists THEN host ELSE <<>>
                   p == IF ~body.keepPort THEN body.port ELSE IF exists THEN port ELSE 0
                   moved == (h # <<>> /\ h # host) \/ (p # 0 /\ p # port)
                   del == IF moved THEN <<DeleteJob(n)>> ELSE <<>>
               IN  IF exists /\ (h = <<>> \/ ~isAlphaNumeric(h) \/ p = 0)
                   THEN /\ Len(update) + Len(del) <= MaxJobs
                        /\ update' = update \o del
                        /\ job' = job
                        /\ api' = [Touched(Returned(api, "putRecord", "400", <<>>),
                                           IF moved THEN {n} ELSE {}) EXCEPT !.posted = @ + Len(del)]
                   ELSE IF exists
                   THEN /\ Len(update) + Len(del) + 2 <= MaxJobs
                        /\ Len(job) < MaxSignals
                        /\ update' = update \o del \o
                               <<UpdateJob(Node(NodeOf(h, p), records[n].priority, body.active,
                                                records[n].maintenance)), DoneJob>>
                        /\ job' = Append(job, nodeJobSignal)
                        /\ api' = [Touched(Returned(api, "putRecord", "202", <<>>), {n, NodeOf(h, p)}) EXCEPT
                                       !.posted = @ + Len(del) + 2]
                   ELSE /\ Len(update) + 2 <= MaxJobs
                        /\ Len(job) < MaxSignals
                        /\ update' = update \o <<UpdateJob(Node(n, 0, body.active, FALSE)), DoneJob>>
                        /\ job' = Append(job, nodeJobSignal)
                        /\ api' = [Touched(Returned(api, "putRecord", "201", <<>>), {n}) EXCEPT
                                       !.posted = @ + 2]
    /\ UNCHANGED <<records, co, queues, qs, wk, req, health, writes, hosts, inv, out, ext>>

\* NodeBundle.putAllRecords, under the read lock
putAllRecords(xs) ==
    /\ admin >= Len(xs)
    /\ admin' = admin - Len(xs)
    /\ ~mutexLocked
    /\ IF \E i \in 1..Len(xs) : xs[i].host = <<>> \/ xs[i].port = 0 \/ ~isAlphaNumeric(xs[i].host)
       THEN /\ api' = Returned(api, "putAllRecords", "400", <<>>)
            /\ UNCHANGED <<update, job>>
       ELSE /\ Len(update) + Len(xs) + 1 <= MaxJobs
            /\ Len(job) < MaxSignals
            /\ update' = update \o [i \in 1..Len(xs) |-> UpdateJob(Record(xs[i]))] \o <<DoneJob>>
            /\ job' = Append(job, nodeJobSignal)
            /\ api' = [Touched(Returned(api, "putAllRecords", "202", <<>>),
                               {Record(xs[i]).id : i \in 1..Len(xs)}) EXCEPT
                           !.posted = @ + Len(xs) + 1]
    /\ UNCHANGED <<records, co, queues, qs, wk, req, health, writes, hosts, inv, out, ext>>

\* ------------------------------------------------------------------- Spec
Coordinator ==
    \/ jobListener
    \/ updateRecords
    \/ getResponseAlive
    \/ getResponseTimeout
    \/ finalResponse

Worker(w) ==
    \/ worker1(w)
    \/ workerTask(w)
    \/ workerQuit(w)
    \/ workerAsk(w)
    \/ doUpdateCheck(w)
    \/ doUpdateRetry(w)
    \/ doUpdateQuit(w)
    \/ doUpdateAsk(w)
    \/ doUpdateDispatch(w)
    \/ doUpdateAnswer(w)

Dispatcher(r) ==
    \/ processUpdate(r)
    \/ fanOut(r)
    \/ answered(r)
    \/ timedOut(r)

Next ==
    \/ \E n \in Nodes : Flip(n)
    \/ \E n \in Nodes, p \in Priorities, a, m \in BOOLEAN : Set(n, p, a, m)
    \/ \E n \in Nodes : Delete(n)
    \/ Coordinator
    \/ \E w \in WIds : Worker(w)
    \/ \E r \in RIds : Dispatcher(r)

Spec == Init /\ [][Next]_vars

SpecFan == InitFan /\ [][Next]_vars

\* the scheduler runs every task that can take a step, and timers expire
Fairness == WF_vars(Coordinator) /\ \A w \in WIds : WF_vars(Worker(w))

SpecLive == InitLive /\ [][Next]_vars /\ Fairness

\* besides, the probe timer of getResponse expires when the worker keeps it
\* waiting again and again, and a select of doUpdate that finds a quit or an
\* ask ready again and again takes it in the end
Expiry ==
    /\ SF_vars(getResponseTimeout)
    /\ \A w \in WIds : SF_vars(doUpdateQuit(w)) /\ SF_vars(doUpdateAsk(w))

SpecProgress == InitLive /\ [][Next]_vars /\ Fairness /\ Expiry

\* the admin API with the coordinator and the control part of the workers;
\* no client sends a write, so no worker ever has a task
InitApi ==
    /\ Constructed
    /\ admin = ApiOps
    /\ writes = 0
    /\ hosts = Nodes

NextApi ==
    \/ \E x \in Inputs : SetNode(x)
    \/ \E xs \in Batches(ApiOps) : SetAllBegin(xs)
    \/ SetAllPost
    \/ SetAllDone
    \/ SetAllSignal
    \/ \E host \in GetHosts, port \in Ports : DeleteRecord(host, port)
    \/ \E host \in GetHosts : DeleteAllByHost(host)
    \/ DeleteAll
    \/ Coordinator
    \/ \E w \in WIds : worker1(w) \/ workerQuit(w) \/ workerAsk(w)

SpecApi == InitApi /\ [][NextApi]_vars

\* the same with the HTTP handlers that post jobs themselves
InitHttp ==
    /\ Constructed
    /\ admin = HttpOps
    /\ writes = 0
    /\ hosts = Nodes

NextHttp ==
    \/ NextApi
    \/ \E host \in SetHosts, port \in Ports, body \in Bodies : putRecord(host, port, body)
    \/ \E xs \in Batches(HttpOps) : putAllRecords(xs)

SpecHttp == InitHttp /\ [][NextHttp]_vars

\* the calls that post transactions, FrameOps nodes in all
InitFrame ==
    /\ Constructed
    /\ admin = FrameOps
    /\ writes = 0
    /\ hosts = Nodes

NextFrame ==
    \/ \E x \in Inputs : SetNode(x)
    \/ \E xs \in Batches(FrameOps) : SetAllBegin(xs)
    \/ SetAllPost
    \/ SetAllDone
    \/ SetAllSignal
    \/ \E host \in GetHosts, port \in Ports : DeleteRecord(host, port)
    \/ \E host \in GetHosts : DeleteAllByHost(host)
    \/ DeleteAll
    \/ \E host \in SetHosts, port \in Ports, body \in Bodies : putRecord(host, port, body)
    \/ \E xs \in Batches(FrameOps) : putAllRecords(xs)
    \/ Coordinator
    \/ \E w \in WIds : worker1(w) \/ workerQuit(w) \/ workerAsk(w)

SpecFrame == InitFrame /\ [][NextFrame]_vars

\* the admin API from a settled proxy: the inventory is empty, or holds the
\* inactive node a:2 that an earlier Set has put there
InitCall ==
    /\ records \in {[n \in Nodes |-> NoNode],
                    [n \in Nodes |-> IF n = 2 THEN Node(2, 1, FALSE, FALSE) ELSE NoNode]}
    /\ update = <<>>
    /\ job = <<>>
    /\ co = Idle
    /\ queues = [n \in Nodes |-> 0]
    /\ qs = [q \in QIds |-> NoQueue]
    /\ wk = [w \in WIds |-> NoWorker]
    /\ req = [r \in RIds |-> NoRequest]
    /\ health = [n \in Nodes |-> TRUE]
    /\ api = NoCall
    /\ inv = <<>>
    /\ out = <<>>
    /\ roundRobin = FALSE
    /\ ring = <<>>
    /\ rd = [r \in RdIds |-> NoRead]
    /\ response = 0
    /\ quit = 0
    /\ sd = NoShutdown
    /\ alnum = NoAlnum
    /\ hostKeys = IF Present = {} THEN {} ELSE {HostA}
    /\ admin = CallOps
    /\ writes = 0
    /\ hosts = Nodes

NextCall ==
    \/ \E x \in Inputs : SetNode(x)
    \/ \E xs \in Batches(CallOps) : SetAllBegin(xs)
    \/ SetAllPost
    \/ SetAllDone
    \/ SetAllSignal
    \/ \E host \in GetHosts, port \in Ports : DeleteRecord(host, port)
    \/ \E host \in GetHosts : DeleteAllByHost(host)
    \/ DeleteAll
    \/ Coordinator
    \/ \E w \in WIds : worker1(w) \/ workerQuit(w) \/ workerAsk(w)

SpecCall == InitCall /\ [][NextCall]_vars

\* --------------------------------------------------------------- Shutdown
\* Server.Shutdown: the timer is set and the tokens on response are swept
ShutdownSweep ==
    /\ sd.pc = "none"
    /\ response' = 0
    /\ sd' = [sd EXCEPT !.pc = "swept"]
    /\ UNCHANGED <<records, update, job, co, queues, qs, wk, req, health, admin, writes, hosts, api, inv, out,
                   roundRobin, ring, rd, quit, alnum, hostKeys>>

\* Server.Shutdown: the quit signal is sent
ShutdownQuit ==
    /\ sd.pc = "swept"
    /\ quit < 1
    /\ quit' = quit + 1
    /\ sd' = [sd EXCEPT !.pc = "wait"]
    /\ UNCHANGED <<records, update, job, co, queues, qs, wk, req, health, admin, writes, hosts, api, inv, out,
                   roundRobin, ring, rd, response, alnum, hostKeys>>

\* Server.Shutdown, final select, case response
ShutdownResponse ==
    /\ sd.pc = "wait"
    /\ response > 0
    /\ response' = response - 1
    /\ sd' = [sd EXCEPT !.pc = "returned", !.err = "nil"]
    /\ UNCHANGED <<records, update, job, co, queues, qs, wk, req, health, admin, writes, hosts, api, inv, out,
                   roundRobin, ring, rd, quit, alnum, hostKeys>>

\* Server.Shutdown, final select, case timeout: the minute passes with no
\* token on response while the coordinator is blocked inside jobController
ShutdownTimeout ==
    /\ sd.pc = "wait"
    /\ response = 0
    /\ co.pc \notin {"listen", "stopped"}
    /\ ~ENABLED (Coordinator \/ jobListenerQuit)
    /\ sd' = [sd EXCEPT !.pc = "returned", !.err = "timeout"]
    /\ UNCHANGED <<records, update, job, co, queues, qs, wk, req, health, admin, writes, hosts, api, inv, out,
                   roundRobin, ring, rd, response, quit, alnum, hostKeys>>

\* server.job <- responseSignal: a caller asks for a token
postResponseSignal ==
    /\ admin > 0
    /\ admin' = admin - 1
    /\ Len(job) < MaxSignals
    /\ job' = Append(job, responseSignal)
    /\ sd' = [sd EXCEPT !.waiting = @ + 1]
    /\ UNCHANGED <<records, update, co, queues, qs, wk, req, health, writes, hosts, api, inv, out,
                   roundRobin, ring, rd, response, quit, alnum, hostKeys>>

\* <-server.response: such a caller gets a token
takeResponse ==
    /\ sd.waiting > 0
    /\ response > 0
    /\ response' = response - 1
    /\ sd' = [sd EXCEPT !.waiting = @ - 1]
    /\ UNCHANGED <<records, update, job, co, queues, qs, wk, req, health, admin, writes, hosts, api, inv, out,
                   roundRobin, ring, rd, quit, alnum, hostKeys>>

\* the proxy with its shutdown: DownOps operations in all
InitDown ==
    /\ Constructed
    /\ \E k \in 0..DownOps : admin = k /\ writes = DownOps - k
    /\ hosts = Nodes

NextDown ==
    \/ Next
    \/ jobListenerQuit
    \/ ShutdownSweep
    \/ ShutdownQuit
    \/ ShutdownResponse
    \/ ShutdownTimeout
    \/ postResponseSignal
    \/ takeResponse

SpecDown == InitDown /\ [][NextDown]_vars

\* ----------------------------------------------------------- write path
\* Server.processUpdate of a request whose body cannot be read: DumpRequest
\* fails and its error is returned
processUpdateDump(r) ==
    /\ req[r].pc = "new"
    /\ \A i \in 1..(r - 1) : req[i].pc # "new"
    /\ writes > 0
    /\ writes' = writes - 1
    /\ req' = [req EXCEPT ![r] = [@ EXCEPT !.pc = "ret", !.result = "dump"]]
    /\ UNCHANGED <<records, update, job, co, queues, qs, wk, health, admin, hosts, aux>>

\* one write request, readable or not, and WriteOps - 1 admin calls
InitWrite ==
    /\ Constructed
    /\ admin = WriteOps - 1
    /\ writes = 1
    /\ hosts = Nodes

NextWrite ==
    \/ Next
    \/ \E r \in RIds : processUpdateDump(r)

SpecWrite == InitWrite /\ [][NextWrite]_vars

\* ------------------------------------------------------------ read path
\* the priorities of the nodes that reads are spread over: a:1 has none,
\* a:2 has priority 1 and comes first
RingPriority == [n \in Nodes |-> n - 1]

Receive(r) ==
    \/ processReceive(r)
    \/ readCurrent(r)
    \/ readTwist(r)
    \/ readScan(r)
    \/ readCheck(r)
    \/ readSend(r)

\* Run in either mode, and RoundOps admin calls and read requests in all
InitRound ==
    /\ Built
    /\ roundRobin \in BOOLEAN
    /\ \E k \in 0..RoundOps : admin = k /\ writes = RoundOps - k
    /\ hosts = Nodes

NextRound ==
    \/ \E n \in Nodes : Flip(n)
    \/ \E n \in Nodes, a, m \in BOOLEAN : Set(n, RingPriority[n], a, m)
    \/ \E n \in Nodes : Delete(n)
    \/ Coordinator
    \/ \E w \in WIds : worker1(w) \/ workerQuit(w) \/ workerAsk(w)
    \/ \E r \in RdIds : Receive(r)

SpecRound == InitRound /\ [][NextRound]_vars

\* no read request is in flight
NoReadInFlight == \A i \in RdIds : rd[i].pc \in {"new", "ret"}

\* an admin call made while no read is in flight
SetAlone(n, a, m) == NoReadInFlight /\ Set(n, RingPriority[n], a, m)

DeleteAlone(n) == NoReadInFlight /\ Delete(n)

\* a read request that arrives when nothing else is going on
ReceiveAlone(r) == NoReadInFlight /\ Quiet /\ processReceive(r)

\* Run(true) with reads and admin calls one after the other, SeqOps in all,
\* two or more of each
InitSeq ==
    /\ Built
    /\ roundRobin = TRUE
    /\ \E k \in 2..(SeqOps - 2) : admin = k /\ writes = SeqOps - k
    /\ hosts = Nodes

NextSeq ==
    \/ \E n \in Nodes : Flip(n)
    \/ \E n \in Nodes, a, m \in BOOLEAN : SetAlone(n, a, m)
    \/ \E n \in Nodes : DeleteAlone(n)
    \/ Coordinator
    \/ \E w \in WIds : worker1(w) \/ workerQuit(w) \/ workerAsk(w)
    \/ \E r \in RdIds : ReceiveAlone(r) \/ readCurrent(r) \/ readTwist(r) \/ readCheck(r) \/ readSend(r)

SpecSeq == InitSeq /\ [][NextSeq]_vars

\* ------------------------------------------------------------ the probe
\* Server.worker, second select, case ask: the receive of the ask
workerAskTake(w) ==
    /\ wk[w].pc = "sel2"
    /\ qs[wk[w].q].ask > 0
    /\ qs' = [qs EXCEPT ![wk[w].q].ask = @ - 1]
    /\ wk' = [wk EXCEPT ![w].pc = "answer"]
    /\ UNCHANGED <<records, update, job, co, queues, req, health, admin, writes, hosts, aux>>

\* Server.worker, second select, case ask: the send of the response
workerAskPost(w) ==
    /\ wk[w].pc = "answer"
    /\ qs[wk[w].q].response < cmdQueueCapacity
    /\ qs' = [qs EXCEPT ![wk[w].q].response = @ + 1]
    /\ wk' = [wk EXCEPT ![w].pc = "sel1"]
    /\ UNCHANGED <<records, update, job, co, queues, req, health, admin, writes, hosts, aux>>

\* ProbeOps calls of Set for the node a:1, with no write
InitProbe ==
    /\ Constructed
    /\ admin = ProbeOps
    /\ writes = 0
    /\ hosts = {1}

NextProbe ==
    \/ \E a, m \in BOOLEAN : Set(1, 1, a, m)
    \/ Coordinator
    \/ \E w \in WIds : worker1(w) \/ workerQuit(w) \/ workerAskTake(w) \/ workerAskPost(w)

SpecProbe == InitProbe /\ [][NextProbe]_vars

\* --------------------------------------------- the locks and the channels
\* the signals and the jobs of k calls of Set for the node a:1
SignalsOf(k) == [i \in 1..k |-> nodeJobSignal]
JobsOf(k) == [i \in 1..(2 * k) |-> IF i % 2 = 1 THEN UpdateJob(Node(1, 1, TRUE, FALSE)) ELSE DoneJob]

\* NodeBundle.DeleteAll, RLock and the range over the records: the jobs it
\* is going to send, the done marker last
DeleteAllRLock ==
    /\ api.pc = "idle"
    /\ admin > 0
    /\ admin' = admin - 1
    /\ ~mutexLocked
    /\ \E o \in Orders(Present) :
          api' = [Returned(api, "DeleteAll", "none", <<>>) EXCEPT !.pc = "send", !.todo = DeleteJobs(o)]
    /\ UNCHANGED <<records, update, job, co, queues, qs, wk, req, health, writes, hosts, inv, out, ext>>

\* NodeBundle.DeleteAll: one send on the update channel, which blocks
\* while the channel is full
DeleteAllSend ==
    /\ api.pc = "send"
    /\ Len(update) < MaxJobs
    /\ update' = Append(update, Head(api.todo))
    /\ api' = [(IF Head(api.todo).done THEN api ELSE Touched(api, {Head(api.todo).record.id})) EXCEPT
                   !.todo = Tail(@), !.posted = @ + 1,
                   !.pc = IF Len(api.todo) = 1 THEN "notify" ELSE "send"]
    /\ UNCHANGED <<records, job, co, queues, qs, wk, req, health, admin, writes, hosts, inv, out, ext>>

\* NodeBundle.DeleteAll: the send of the signal, which blocks while the job
\* channel is full, and the deferred RUnlock
DeleteAllNotify ==
    /\ api.pc = "notify"
    /\ Len(job) < MaxSignals
    /\ job' = Append(job, nodeJobSignal)
    /\ api' = [api EXCEPT !.pc = "idle"]
    /\ UNCHANGED <<records, update, co, queues, qs, wk, req, health, admin, writes, hosts, inv, out, ext>>

\* the proxy after MaxSignals calls of Set for a:1 that came in before the
\* coordinator took the first signal; LockOps calls follow
InitLock ==
    /\ records = [n \in Nodes |-> NoNode]
    /\ update = JobsOf(MaxSignals)
    /\ job = SignalsOf(MaxSignals)
    /\ co = Idle
    /\ queues = [n \in Nodes |-> 0]
    /\ qs = [q \in QIds |-> NoQueue]
    /\ wk = [w \in WIds |-> NoWorker]
    /\ req = [r \in RIds |-> NoRequest]
    /\ health = [n \in Nodes |-> TRUE]
    /\ api = [NoCall EXCEPT !.posted = 2 * MaxSignals]
    /\ inv = <<>>
    /\ out = <<>>
    /\ roundRobin = FALSE
    /\ ring = <<>>
    /\ rd = [r \in RdIds |-> NoRead]
    /\ response = 0
    /\ quit = 0
    /\ sd = NoShutdown
    /\ alnum = NoAlnum
    /\ hostKeys = {}
    /\ admin = LockOps
    /\ writes = 0
    /\ hosts = Nodes

NextLock ==
    \/ \E m \in BOOLEAN : Set(1, 1, TRUE, m)
    \/ DeleteAllRLock
    \/ DeleteAllSend
    \/ DeleteAllNotify
    \/ Coordinator
    \/ \E w \in WIds : worker1(w) \/ workerQuit(w) \/ workerAsk(w)

SpecLock == InitLock /\ [][NextLock]_vars

\* ------------------------------------------------------ order in a batch
\* the nodes of the batches: every node of Nodes with every setting of flags
OrderNodes == {Node(n, 1, a, m) : n \in Nodes, a \in BOOLEAN, m \in BOOLEAN}

\* a SetAll that posts its jobs back to front
SetAllReversed(k) ==
    /\ admin >= k
    /\ admin' = admin - k
    /\ Len(update) + k + 1 <= MaxJobs
    /\ Len(job) < MaxSignals
    /\ \E xs \in [1..k -> OrderNodes] :
          /\ update' = update \o [i \in 1..k |-> UpdateJob(xs[k + 1 - i])] \o <<DoneJob>>
          /\ inv' = xs
    /\ job' = Append(job, nodeJobSignal)
    /\ UNCHANGED <<records, co, queues, qs, wk, req, health, writes, hosts, api, out, ext>>

\* NodeBundle.SetAll of k valid nodes by a caller that runs alone: one update
\* job per node in the order of the slice, the done marker, the signal
SetAllOrdered(k) ==
    /\ admin >= k
    /\ admin' = admin - k
    /\ Len(update) + k + 1 <= MaxJobs
    /\ Len(job) < MaxSignals
    /\ \E xs \in [1..k -> OrderNodes] :
          /\ update' = update \o [i \in 1..k |-> UpdateJob(xs[i])] \o <<DoneJob>>
          /\ inv' = xs
    /\ job' = Append(job, nodeJobSignal)
    /\ UNCHANGED <<records, co, queues, qs, wk, req, health, writes, hosts, api, out, ext>>

\* batches and deletions, OrderOps nodes in all
InitOrder ==
    /\ Constructed
    /\ admin = OrderOps
    /\ writes = 0
    /\ hosts = Nodes

NextOrder ==
    \/ \E k \in 1..OrderOps : SetAllOrdered(k)
    \/ \E n \in Nodes : Delete(n)
    \/ Coordinator
    \/ \E w \in WIds : worker1(w) \/ workerQuit(w) \/ workerAsk(w)

SpecOrder == InitOrder /\ [][NextOrder]_vars

\* ------------------------------------------------------- priority order
\* the priorities of the sorting checks
SortPriorities == -2..2

\* NodeBundle.GetAll on an inventory whose nodes were inserted in the order
\* of s: the range over the map visits them in any order, sort.Sort moves
\* them by Less
GetAllOf(s) ==
    {IF byPriority THEN sortByPriority([i \in 1..Len(s) |-> s[o[i]]])
     ELSE [i \in 1..Len(s) |-> s[o[i]]] : o \in Orders(1..Len(s))}

\* a node of priority p is inserted; it is the Len(inv)+1-th
InsertNode(p) ==
    /\ Len(inv) < MaxInv
    /\ inv' = Append(inv, Node(Len(inv) + 1, p, TRUE, FALSE))
    /\ out' = <<>>
    /\ UNCHANGED <<records, update, job, co, queues, qs, wk, req, health, admin, writes, hosts, api, ext>>

\* one call of GetAll
CallGetAll ==
    /\ inv # <<>>
    /\ out' \in GetAllOf(inv)
    /\ UNCHANGED <<records, update, job, co, queues, qs, wk, req, health, admin, writes, hosts, api, inv, ext>>

InitSort ==
    /\ Constructed
    /\ admin = 0
    /\ writes = 0
    /\ hosts = {}

NextSort ==
    \/ \E p \in SortPriorities : InsertNode(p)
    \/ CallGetAll

SpecSort == InitSort /\ [][NextSort]_vars

\* ------------------------------------------------------ isAlphaNumeric
\* the runes of the arguments: the ends of the three ranges and their
\* neighbours, '_', '-', '.', and '!', ',', '^' and U+00E9 from outside
AlphaRunes == {33, 44, 45, 46, 47, 48, 57, 58, 64, 65, 90, 91, 94, 95, 96, 97, 122, 123, 233}

\* the argument grows by one rune
AppendRune(b) ==
    /\ Len(alnum.str) < MaxStr
    /\ alnum' = [NoAlnum EXCEPT !.str = Append(alnum.str, b)]
    /\ UNCHANGED <<records, update, job, co, queues, qs, wk, req, health, admin, writes, hosts, api, inv, out,
                   roundRobin, ring, rd, response, quit, sd, hostKeys>>

\* one call of isAlphaNumeric on the argument
CallIsAlphaNumeric ==
    /\ ~alnum.called
    /\ alnum' = [alnum EXCEPT !.called = TRUE, !.isAlphaNum = isAlphaNumeric(alnum.str)]
    /\ UNCHANGED <<records, update, job, co, queues, qs, wk, req, health, admin, writes, hosts, api, inv, out,
                   roundRobin, ring, rd, response, quit, sd, hostKeys>>

InitAlpha ==
    /\ Constructed
    /\ admin = 0
    /\ writes = 0
    /\ hosts = {}

NextAlpha ==
    \/ \E b \in AlphaRunes : AppendRune(b)
    \/ CallIsAlphaNumeric

SpecAlpha == InitAlpha /\ [][NextAlpha]_vars

\* ------------------------------------------------------------ properties
IsPrefix(s, t) == Len(s) <= Len(t) /\ \A i \in 1..Len(s) : s[i] = t[i]
Range(s) == {s[i] : i \in 1..Len(s)}
Count(s, x) == Cardinality({i \in 1..Len(s) : s[i] = x})

\* node n is in the inventory, active and not in maintenance
Serving(n) == records[n] # NoNode /\ records[n].active /\ ~records[n].maintenance
\* node n is in the inventory, active and in maintenance
Suspended(n) == records[n] # NoNode /\ records[n].active /\ records[n].maintenance
\* every posted mutation has been applied
Settled == co.pc = "listen" /\ job = <<>>
\* the jobs some worker of queue q holds between taking and dispatching
InHand(q) == {wk[w].job : w \in {i \in WorkersOf(q) : wk[i].pc \in {"send", "latch"}}}

\* C1: of the sibling jobs of one write request at most one sends a
\* response on the shared answer channel, and once no sibling is in flight
\* every other successful sibling has closed its response body
FirstWins ==
    \A r \in RIds :
        /\ req[r].sent <= 1
        /\ (\A w \in WIds : wk[w].job # r) => req[r].ok <= req[r].sent + req[r].closed

\* C2: the jobs dispatched from a queue are, in order, a prefix of the jobs
\* enqueued on it
QueueFIFO == \A q \in QIds : IsPrefix(qs[q].disp, qs[q].enq)

\* C3: at most one worker runs on every queue of the registry
OneWorkerPerQueue ==
    \A n \in Nodes : queues[n] # 0 => Cardinality(WorkersOf(queues[n])) <= 1

\* C4: a worker that has received quit has terminated, and the controller
\* that waits for the final token finds exactly one on response
StopHandshake ==
    /\ \A w \in WIds : ~wk[w].quit
    /\ co.pc = "final" => qs[co.q].response = 1

\* C5: a write request that has left its fan-out loop has put exactly one
\* job and one task token on the queue of every node that is active in its
\* snapshot, in maintenance or not, and nothing for the other nodes
WriteTargets ==
    \A r \in RIds : req[r].pc \in {"await", "ret"} =>
        /\ \A n \in Nodes :
             Count(req[r].jobs, n) =
                 IF \E i \in 1..Len(req[r].nodes) : req[r].nodes[i].id = n /\ req[r].nodes[i].active
                 THEN 1 ELSE 0
        /\ req[r].tokens = Len(req[r].jobs)

WriteTargetsWitness ==
    \E r \in RIds :
        /\ req[r].pc \in {"await", "ret"}
        /\ \E i, j \in 1..Len(req[r].nodes) :
             /\ req[r].nodes[i].active /\ req[r].nodes[i].maintenance
             /\ ~req[r].nodes[j].active
        /\ Len(req[r].jobs) = 1

\* C6: a job leaves a queue only in the step in which the health probe of
\* the taking worker succeeds, and a worker that dispatches has a
\* successful probe as its most recent one
HealthGated ==
    [][/\ \A q \in QIds :
            (qs[q].id # 0 /\ qs'[q].id = qs[q].id /\ Len(qs'[q].jobs) < Len(qs[q].jobs)) =>
                \E w \in WorkersOf(q) :
                    /\ wk[w].pc = "check" /\ wk'[w].pc = "send"
                    /\ health[qs[q].id] /\ wk'[w].probe
       /\ \A w \in WIds : wk'[w].pc = "send" => wk'[w].probe]_vars

HealthGatedWitness ==
    \E w \in WIds : wk[w].pc = "send" /\ wk[w].probe /\ ~health[qs[wk[w].q].id]

\* C7: a write queued for a serving node is eventually dispatched to it,
\* unless the node stops serving or keeps failing its health probe
Queued(n, r) == queues[n] # 0 /\ r \in Range(qs[queues[n]].jobs)
Dispatched(n, r) == queues[n] # 0 /\ r \in Range(qs[queues[n]].disp)

DeadNodeRecovery ==
    \A n \in Nodes, r \in RIds :
        []((Serving(n) /\ Queued(n, r)) =>
              (<>Dispatched(n, r) \/ <>~Serving(n) \/ []<>~health[n]))

DeadNodeRecoveryWitness ==
    \E n \in Nodes, r \in RIds :
        /\ Serving(n) /\ Dispatched(n, r)
        /\ req[r].result = "timeout"

\* C8: while a node is in maintenance and the transaction that set it has
\* been applied, no worker takes a job to dispatch it to the node
MaintenanceSuspends ==
    [][\A w \in WIds :
          (wk[w].pc = "check" /\ wk'[w].pc = "send") =>
              ~(Suspended(qs[wk[w].q].id) /\ ~mutexLocked)]_vars

\* C9: when maintenance of a node has been cleared and its queue, filled
\* with k writes during maintenance, has drained, the node was sent exactly
\* those k jobs in enqueue order
MaintenanceDrain ==
    \A n \in Nodes :
        LET q == queues[n]
        IN  (/\ Serving(n) /\ ~mutexLocked /\ q # 0
             /\ qs[q].held > 0 /\ qs[q].held = Len(qs[q].enq)
             /\ qs[q].jobs = <<>> /\ InHand(q) = {})
            => qs[q].disp = qs[q].enq

\* C10: when every posted mutation has been applied, a node of the
\* inventory has a queue iff it is active, and a worker on that queue iff
\* it is active and not in maintenance
QueueFollowsFlags ==
    Settled =>
        \A n \in Present :
            /\ queues[n] # 0 <=> records[n].active
            /\ (queues[n] # 0 /\ WorkersOf(queues[n]) # {}) <=> Serving(n)

\* C11: when every posted mutation has been applied, a node that was deleted
\* or deactivated has no worker left, on its registered queue or on a queue
\* object that was taken out of the registry
NoWorkerAfterRemoval ==
    Settled =>
        \A n \in Nodes :
            (records[n] = NoNode \/ ~records[n].active) =>
                \A w \in WIds : wk[w] # NoWorker => qs[wk[w].q].id # n

\* C12: when every posted mutation has been applied, the registry holds no
\* queue for a node that is not in the inventory
DeletedHasNoQueue ==
    Settled => \A n \in Nodes : records[n] = NoNode => queues[n] = 0

\* the job posted as number seq on update has been taken by updateRecords
Applied(seq) == seq <= api.posted - Len(update)
\* the mutations of the last SetAll batch a reader finds applied
Observed == {seq \in api.seqs : Applied(seq)}

\* C13: whenever a reader can take the read lock, it finds none or all of
\* the mutations of a SetAll batch applied
BatchAtomic == ~mutexLocked => Cardinality(Observed) \in {0, api.size}

\* C14: when Set(n) has returned true, no mutation of the node was posted
\* since and the coordinator has served every signal, Get returns n
SetGetRoundTrip ==
    Settled =>
        \A n \in Nodes :
            api.set[n] # NoNode => Get(HostA, n) = [node |-> api.set[n], ok |-> TRUE]

\* C15: the step in which the coordinator takes the job of a Delete that
\* returned true leaves the node out of the inventory, Get finds it no more,
\* no GetAll contains it, and every other record is as before
DeleteRoundTrip ==
    [][(/\ api.del.seq > 0
        /\ api' = api
        /\ ~Applied(api.del.seq)
        /\ api.del.seq <= api.posted - Len(update'))
       => /\ records' = [records EXCEPT ![api.del.n] = NoNode]
          /\ ~(Get(HostA, api.del.n).ok)'
          /\ \A s \in GetAll' : \A i \in 1..Len(s) : s[i].id # api.del.n]_vars

DeleteRoundTripWitness ==
    /\ api.del.seq > 0
    /\ Applied(api.del.seq)
    /\ ~Get(HostA, api.del.n).ok
    /\ Present # {}

\* C16: Set of a faulty node and SetAll of a batch with a faulty node return
\* false, post no job and no signal, and leave inventory and registry alone;
\* nothing of such a batch is posted later either
ValidationRejects ==
    [][(/\ admin' < admin
        /\ api'.op \in {"Set", "SetAll"}
        /\ TRUE \in Range(api'.arg))
       => /\ api'.ret = "false"
          /\ api'.pc = api.pc
          /\ UNCHANGED <<update, job, records, queues>>]_vars

ValidationRejectsWitness ==
    /\ api.op = "SetAll" /\ api.ret = "false"
    /\ TRUE \in Range(api.arg) /\ FALSE \in Range(api.arg)
    /\ Present # {}

\* C17: an admin write handler that answers 400 has posted no job and no
\* signal
RejectedPutPostsNothing ==
    [][(admin' # admin /\ api'.op \in {"putRecord", "putAllRecords"} /\ api'.ret = "400")
       => UNCHANGED <<update, job>>]_vars

\* C18: Delete returns false, and posts nothing, exactly when no record has
\* the identity; DeleteAllByHost returns false, and posts nothing, exactly
\* when the host has no record; otherwise they return true
DeleteReturns ==
    [][/\ \A host \in GetHosts, port \in Ports :
            DeleteRecord(host, port) =>
                IF \E n \in Present : host = HostA /\ port = n
                THEN api'.ret = "true" /\ update' # update
                ELSE api'.ret = "false" /\ UNCHANGED <<update, job, records>>
       /\ \A host \in GetHosts :
            DeleteAllByHost(host) =>
                IF \E n \in Present : host = HostA
                THEN api'.ret = "true" /\ update' # update
                ELSE api'.ret = "false" /\ UNCHANGED <<update, job, records>>]_vars

DeleteReturnsWitness ==
    /\ api.op = "Delete" /\ api.ret = "false"
    /\ Present # {}

\* the rank of a priority in the order 1, 2, 3, .., 0, .., -1, -2, -3
Class(p) == IF p > 0 THEN 1 ELSE IF p = 0 THEN 2 ELSE 3
InOrder(x, y) ==
    \/ Class(x.priority) < Class(y.priority)
    \/ /\ Class(x.priority) = Class(y.priority)
       /\ IF x.priority > 0 THEN x.priority <= y.priority ELSE x.priority >= y.priority

\* what GetAll returned is a permutation of the inventory in priority order
Sorted ==
    out # <<>> =>
        /\ Len(out) = Len(inv)
        /\ Range(out) = Range(inv)
        /\ \A i, j \in 1..Len(out) : i < j => InOrder(out[i], out[j])

\* C19: GetAll returns a permutation of the inventory with the positive
\* priorities ascending, then the zeros, then the negatives descending, and
\* Less never holds both ways between two nodes
PriorityOrder ==
    /\ Sorted
    /\ \A i, j \in 1..Len(inv) : i # j => ~(Less(inv[i], inv[j]) /\ Less(inv[j], inv[i]))

\* C20: nodes of equal priority come out of GetAll in the order of their
\* insertion, so that GetAll has one possible result
TieByInsertion ==
    /\ \A i, j \in 1..Len(out) :
           (i < j /\ out[i].priority = out[j].priority) => out[i].id < out[j].id
    /\ Cardinality(GetAllOf(inv)) = 1

\* C28: isAlphaNumeric returns true exactly for the strings, the empty one
\* included, whose characters are all among 0-9, A-Z, a-z, '_', '.', '-'
AlphaNumericExact ==
    alnum.called =>
        (alnum.isAlphaNum <=> \A i \in 1..Len(alnum.str) : alnum.str[i] \in HostChars)

AlphaNumericExactWitness ==
    /\ alnum.called
    /\ ~alnum.isAlphaNum
    /\ Len(alnum.str) = 2
    /\ alnum.str[1] \in HostChars

\* C26: once Shutdown has returned, the coordinator has exited and no
\* worker is left
ShutdownStopsAll ==
    sd.pc = "returned" =>
        /\ co.pc = "stopped"
        /\ \A w \in WIds : wk[w] = NoWorker

\* C29: Shutdown returns without a timeout error only after the coordinator
\* has exited
ShutdownAfterExit ==
    (sd.pc = "returned" /\ sd.err = "nil") => co.pc = "stopped"


\* the ids of the ring's nodes, from the current element on
RingIds == [i \in 1..Len(ring) |-> ring[i].id]

\* the last k elements of s
LastOf(s, k) == SubSeq(s, Len(s) - k + 1, Len(s))

\* read r ran in round-robin mode over two nodes or more, began when nothing
\* else was going on, and no admin call or read has begun since
Sequential(r) ==
    /\ roundRobin
    /\ Cardinality(Present) >= 2
    /\ rd[r].seq
    /\ rd[r].stamp = <<admin, writes>>

\* the nodes read c has stepped the ring over, in the order it took them
Walked(c) == IF c.result = "response" THEN Append(c.tried, c.by) ELSE c.tried

\* C21: in round-robin mode with two nodes or more, a rebuild leaves the
\* ring in GetAll order with the pointer on its first node, and a read that
\* runs with no other read and no mutation beside it steps the ring from
\* the pointer on, once per node it takes: it passes exactly the nodes that
\* were inactive, in maintenance or unhealthy, is served by the first one
\* that is not, leaves the pointer behind that node, and fails only after
\* one full turn
RoundRobinOrder ==
    [][/\ (co.pc = "update" /\ co'.pc = "listen" /\ roundRobin /\ Cardinality(Present) > 1)
            => ring' \in GetAll
       /\ \A r \in RdIds :
            (Sequential(r) /\ rd[r].pc # "ret" /\ rd'[r].pc = "ret") =>
               LET c == rd'[r]
               IN  /\ Len(ring) = Cardinality(Present)
                   /\ {ring[i] : i \in 1..Len(ring)} = {records[n] : n \in Present}
                   /\ Len(Walked(c)) <= Len(ring)
                   /\ LastOf(RingIds, Len(Walked(c))) = Walked(c)
                   /\ \A i \in 1..Len(c.tried) : c.tried[i] \notin c.good
                   /\ c.result = "response" => Eligible(c.by)
                   /\ c.result = "error" => Len(c.tried) = Len(ring)]_vars

\* two reads one after the other: a:2, first in priority order, served the
\* first one, and a:1 the second
RoundRobinOrderWitness ==
    /\ roundRobin
    /\ rd[1].seq /\ rd[1].result = "response" /\ rd[1].by = 2
    /\ Sequential(2) /\ rd[2].result = "response" /\ rd[2].by = 1


\* the ring is empty below two nodes, and holds the inventory's records,
\* each once, otherwise
RingMatches ==
    IF Cardinality(Present) < 2
    THEN ring = <<>>
    ELSE /\ Len(ring) = Cardinality(Present)
         /\ {ring[i] : i \in 1..Len(ring)} = {records[n] : n \in Present}

\* C22: in round-robin mode, when the coordinator is through with a
\* nodeJobSignal (updateRecords has returned and InitRing has run), the ring
\* is empty if the inventory has fewer than two nodes, and holds exactly the
\* nodes of the inventory, each once and with its current fields, otherwise
RingContent ==
    [][(roundRobin /\ co.pc = "update" /\ co'.pc = "listen") => RingMatches']_vars


\* read r returns in this step
Returns(r) == rd[r].pc # "ret" /\ rd'[r].pc = "ret"

\* C23: in round-robin mode with fewer than two nodes in the inventory and
\* an empty ring, a read goes by the snapshot: if the one node was active,
\* out of maintenance and healthy at every step of the read, the read is
\* served and does not fail
ReadFallback ==
    [][\A r \in RdIds :
          (roundRobin /\ Cardinality(Present) < 2 /\ ring = <<>> /\ Returns(r) /\ rd'[r].good # {})
             => rd'[r].result = "response"]_vars


\* C24: a read fails only if every node was inactive, in maintenance,
\* failing its probe or failing the transport when the read tried it: no
\* read fails while some node of the inventory is active, out of maintenance
\* and healthy at every step of the read, in either mode and also when
\* several reads walk the ring at the same time
ReadFailsOnlyWithoutNode ==
    [][\A r \in RdIds :
          (Returns(r) /\ rd'[r].result = "error") => rd'[r].good = {}]_vars


\* the jobs that this step posts
PostedJobs == SubSeq(update', Len(update) + 1, Len(update'))

\* the nodes that the update jobs of this step write
PutNodes == {PostedJobs[i].record.id : i \in {j \in 1..Len(PostedJobs) :
                                              ~PostedJobs[j].done /\ ~PostedJobs[j].isDelete}}

\* C27: an admin PUT, for one node or for a batch, that writes only nodes
\* whose host:port is not in the inventory answers 201, and one that writes
\* only nodes that are in the inventory answers 202
PutStatus ==
    [][(/\ admin' < admin
        /\ api'.op \in {"putRecord", "putAllRecords"}
        /\ PutNodes # {}
        /\ \A j \in 1..Len(PostedJobs) : ~PostedJobs[j].isDelete)
       => /\ PutNodes \cap Present = {} => api'.ret = "201"
          /\ PutNodes \subseteq Present => api'.ret = "202"]_vars


\* write r returns in this step
WriteReturns(r) == req[r].pc # "ret" /\ req'[r].pc = "ret"

\* what holds of every return of a write: "undefined" is the answer to an
\* empty snapshot, "timeout" the answer when no worker has published on
\* answer, an answer that is there in time is what the client gets, and only
\* siblings whose dispatch succeeded have published
WriteReturn(r) ==
    /\ req'[r].result = "undefined" => Present = {}
    /\ req'[r].result = "timeout" => req[r].answer = <<>>
    /\ req[r].answer # <<>> => req'[r].result = "response"
    /\ req[r].sent <= req[r].ok

\* C25 as stated: a write returns an error only on an empty snapshot or when
\* no worker publishes an answer before responseTimeout; a failed dispatch
\* is never returned, and a sibling that succeeds in time gives the client
\* its response
WriteFailureModes ==
    [][\A r \in RIds : WriteReturns(r) =>
          /\ req'[r].result # "response" => (Present = {} \/ req'[r].result = "timeout")
          /\ WriteReturn(r)]_vars

\* C25 as amended: a write returns an error only when its body cannot be
\* read, on an empty snapshot, or when no worker publishes an answer before
\* responseTimeout; a failed dispatch is never returned, and a sibling that
\* succeeds in time gives the client its response
WriteFailureModesAmended ==
    [][\A r \in RIds : WriteReturns(r) =>
          /\ req'[r].result # "response" =>
                (req'[r].result = "dump" \/ Present = {} \/ req'[r].result = "timeout")
          /\ WriteReturn(r)]_vars

\* a write over two nodes got the response of a:2 after the dispatch to a:1
\* had failed
WriteFailureModesWitness ==
    /\ req[1].result = "response"
    /\ Len(req[1].jobs) = 2
    /\ \E q \in QIds : qs[q].id = 1 /\ qs[q].disp = <<1>>
    /\ req[1].ok = 1


\* worker w takes quit in the retry select of doUpdate in this step
QuitInRetry(w) == wk[w].pc = "wait" /\ ~wk[w].quit /\ wk'[w].quit

\* C30: when a worker takes quit between two failed health probes, the job
\* it was about to deliver is still on the jobs channel of its queue and its
\* task token goes back, so that the queue has as many task tokens as jobs;
\* the worker is through, and it is the next worker started on the queue
\* that takes the job
QuitKeepsJob ==
    [][\A w \in WIds :
          /\ QuitInRetry(w) =>
                LET q == wk[w].q
                IN  /\ qs[q].jobs # <<>>
                    /\ qs'[q].jobs = qs[q].jobs
                    /\ qs'[q].task = qs[q].task + 1
                    /\ qs'[q].task = Len(qs'[q].jobs)
          /\ wk[w].quit => wk'[w].pc \notin {"check", "send"}]_vars


\* worker w takes a job off the jobs channel of its queue in this step
TakesJob(w) == wk[w].pc = "check" /\ wk'[w].pc = "send"

\* C31: a queue that was taken out of the registry, by the deletion or the
\* deactivation of its node, is destroyed with the jobs pending in it: no
\* worker takes a job from a queue that is not the registered queue of its
\* node, so none of those jobs is dispatched afterwards
QueueDestroyed ==
    [][\A w \in WIds : TakesJob(w) => queues[qs[wk[w].q].id] = wk[w].q]_vars


\* the inventory that the jobs of a stream leave when they are applied one
\* after the other to the inventory recs
RECURSIVE ApplyAll(_, _)
ApplyAll(recs, jobs) ==
    IF jobs = <<>> THEN recs
    ELSE LET u == Head(jobs)
         IN  ApplyAll(IF u.done THEN recs
                      ELSE IF u.isDelete THEN [recs EXCEPT ![u.record.id] = NoNode]
                      ELSE [recs EXCEPT ![u.record.id] = u.record],
                      Tail(jobs))

\* the last node of the slice xs with identity n
LastIn(xs, n) ==
    LET I == {i \in 1..Len(xs) : xs[i].id = n}
    IN  xs[CHOOSE i \in I : \A j \in I : j <= i]

\* C32: the mutations of a batch are applied in the order in which they were
\* submitted: a SetAll leaves its jobs on the update channel so that the
\* last node given for an identity is the last job for it, and every step of
\* the updater applies the oldest job, deletes and updates alike, so that
\* the inventory after the transaction holds, for every identity, what its
\* last submitted job says
SubmissionOrder ==
    [][/\ inv' # inv =>
            \A n \in {inv'[i].id : i \in 1..Len(inv')} :
                ApplyAll(records, update')[n] = LastIn(inv', n)
       /\ (update # <<>> /\ update' = Tail(update)) =>
            ApplyAll(records', update') = ApplyAll(records, update)]_vars

\* a batch that names a:1 twice, with different flags, has been applied and
\* the inventory holds the second of the two
SubmissionOrderWitness ==
    /\ Len(inv) = 2 /\ inv[1].id = 1 /\ inv[2].id = 1 /\ inv[1] # inv[2]
    /\ Settled /\ update = <<>>
    /\ records[1] = inv[2]


\* DeleteAll holds the read lock and is blocked in a send on a full channel
BlockedInSend ==
    \/ api.pc = "send" /\ Len(update) >= MaxJobs
    \/ api.pc = "notify" /\ Len(job) >= MaxSignals

\* C33: no admin operation that posts jobs under the inventory read lock is
\* ever blocked in a send on a full update or job channel while the
\* coordinator waits in updateRecords for the inventory write lock
NoLockDeadlock == ~(BlockedInSend /\ co.pc = "update")


\* C34: the coordinator makes progress: once it has taken a nodeJobSignal it
\* runs updateRecords to the done marker, through every probe and every
\* stop handshake on the way, and is back in its listening loop with the
\* inventory write lock released
CoordinatorProgress == (co.pc # "listen") ~> (co.pc = "listen")


\* getResponse returns true in this step: the coordinator leaves its probe
\* with a token from the response channel
ProbeTrue == co.pc = "probe" /\ co' # co /\ qs[co.q].response > 0

Places(n, r) ==
    LET Q == {q \in QIds : qs[q].id = n}
    IN  UNION {{<<"jobs", q, i>> : i \in {j \in 1..Len(qs[q].jobs) : qs[q].jobs[j] = r}} : q \in Q}
        \cup {<<"hand", w, 0>> : w \in {x \in WIds : /\ wk[x].pc = "send" /\ wk[x].job = r
                                                     /\ wk[x].q \in Q}}
        \cup UNION {{<<"sent", q, i>> : i \in {j \in 1..Len(qs[q].disp) : qs[q].disp[j] = r}} : q \in Q}

\* C36: a job is delivered at most once: the job of a request for a node is
\* in one place only, so once it has been handed to dispatchRequest,
\* whatever the transport returned, it is neither in a jobs channel nor in
\* the hand of a worker any more and is not dispatched a second time
AtMostOnce == \A n \in Nodes, r \in RIds : Cardinality(Places(n, r)) <= 1

\* a dispatch has failed in the transport, the worker is back in its loop
\* and the job is nowhere but in the history
AtMostOnceWitness ==
    \E q \in QIds, r \in RIds :
        /\ qs[q].disp = <<r>> /\ qs[q].jobs = <<>>
        /\ req[r].ok = 0 /\ ~health[qs[q].id]
        /\ \E w \in WorkersOf(q) : wk[w].pc = "sel2" /\ wk[w].quit


\* the done markers in the update channel, the nodeJobSignals in the job
\* channel
Markers == Cardinality({i \in 1..Len(update) : update[i].done})
Signals == Count(job, nodeJobSignal)

\* C37: the framing of the transactions: the update channel holds at least
\* one done marker for every nodeJobSignal pending in the job channel, and
\* one more while updateRecords is in progress, so that updateRecords never
\* waits on an empty update channel with the write lock held; and every
\* call of updateRecords ends by taking one done marker
TransactionFraming ==
    /\ [](Markers >= Signals + (IF mutexLocked THEN 1 ELSE 0))
    /\ [][(mutexLocked /\ ~mutexLocked') =>
              (update # <<>> /\ Head(update).done /\ update' = Tail(update))]_vars

\* updateRecords is in progress and a SetAll has sent its done marker but
\* not yet its signal
TransactionFramingWitness ==
    /\ co.pc = "update"
    /\ api.pc = "signal"
    /\ Markers = Signals + 2


\* the workers of queue q that have taken a task token and not yet the job
HoldsTask(q) == {w \in WorkersOf(q) : wk[w].pc \in {"check", "wait"}}

\* C38: tasks and jobs are paired: for every queue the tokens in the task
\* channel and the workers that hold a token without a job are together
\* no more than the jobs in the jobs channel, so a worker that comes out of
\* the health check finds a job to receive
TaskJobPairing ==
    \A q \in QIds : qs[q] # NoQueue =>
        qs[q].task + Cardinality(HoldsTask(q)) <= Len(qs[q].jobs)

\* a worker took a quit in the retry loop and pushed its token back: the
\* queue has one job and one token again, and no worker holds a token
TaskJobPairingWitness ==
    \E q \in QIds :
        /\ qs[q] # NoQueue /\ qs[q].task = 1 /\ Len(qs[q].jobs) = 1
        /\ \E w \in WorkersOf(q) : wk[w].quit /\ wk[w].pc = "sel1"
        /\ HoldsTask(q) = {}


\* C39: the shape of the inventory: a host is a key of the records map
\* exactly when it has at least one node, so no host is ever left with an
\* empty port map, whatever updates and deletes have been applied
InventoryShape == hostKeys = {host \in {HostA} : ByHost(host) # {}}

\* a batch has put a:1 and a:2 into the inventory, a delete has taken a:1
\* out again, and the host is still there with its one node
InventoryShapeWitness ==
    /\ Len(inv) = 2 /\ inv[1].id # inv[2].id
    /\ records[1] = NoNode /\ records[2] # NoNode
    /\ Settled /\ update = <<>>
    /\ hostKeys = {HostA}

=============================================================================
